---- MODULE Spec2Model ----
(***************************************************************************)
(* A model of server/index.js: the WebSocket upgrade handshake, the frame  *)
(* decoder parseFrame, the frame encoder sendMessage, and the per-socket   *)
(* handlers and interval timer the upgrade handler installs.               *)
(*                                                                         *)
(* A Buffer is a sequence of bytes (JS index i is TLA+ index i + 1).  A JS *)
(* string is the sequence of its Unicode code points.                      *)
(***************************************************************************)
EXTENDS Integers, Sequences, FiniteSets, TLC

VARIABLES
    status,      \* per connection: "idle" | "rejected" | "open" | "ended" | "errored"
    request,     \* per connection: the url and Sec-WebSocket-Key of its upgrade request
    response,    \* per connection: the HTTP response the upgrade handler wrote
    written,     \* per connection: the frames socket.write sent, in order
    timer,       \* per connection: the setInterval timer is active
    lastCall,    \* the most recent run of a data handler: socket, data, parseFrame's result
    crashed,     \* an exception left an event handler: the process is gone
    pc,          \* codec round trip: "start" | "encoded" | "decoded"
    msgIn,       \* codec round trip: the message given to the encoder
    role,        \* codec round trip: TRUE when the frame is built in the client role
    maskIn,      \* codec round trip: the 4 bytes Math.random yields, if drawn
    frame,       \* codec round trip: the frame the encoder built
    data,        \* codec round trip: the buffer the data event delivers, as delivered
    result       \* codec round trip: what parseFrame did with that buffer

vars == <<status, request, response, written, timer, lastCall, crashed,
          pc, msgIn, role, maskIn, frame, data, result>>

serverVars == <<status, request, response, written, timer, lastCall, crashed>>
codecVars == <<pc, msgIn, role, maskIn, frame, data, result>>

---------------------------------------------------------------------------
(* Bounds of the model *)

MaxConns == 2
MaxWrites == 2
MaxShortLen == 2
MaxCut == 14

(* Length-class limits of the encoder *)

\* The first limit off by one, as "payloadLength <= 126" would make it.
Len16_inclusive == 125 + 2

Len16 == 126
Len64 == 65536

---------------------------------------------------------------------------
(* JavaScript values and bit operators *)

\* The value of an out-of-range Buffer index.
Undefined == -1

\* ToInt32 of a byte or of undefined, as the operands of & and ^ are coerced.
ToInt32(v) == IF v = Undefined THEN 0 ELSE v

RECURSIVE BitAnd(_, _)
BitAnd(a, b) ==
    IF a = 0 \/ b = 0 THEN 0
    ELSE ((a % 2) * (b % 2)) + (2 * BitAnd(a \div 2, b \div 2))

RECURSIVE BitXor(_, _)
BitXor(a, b) ==
    IF a = 0 THEN b
    ELSE IF b = 0 THEN a
    ELSE ((a + b) % 2) + (2 * BitXor(a \div 2, b \div 2))

BitOr(a, b) == (a + b) - BitAnd(a, b)

Min(a, b) == IF a < b THEN a ELSE b

\* buffer[i]: the byte at JS index i, undefined outside the buffer.
At(buffer, i) == IF i >= 0 /\ i < Len(buffer) THEN buffer[i + 1] ELSE Undefined

\* buffer.slice(start, end) for 0 <= start: the bytes at JS indices start..end-1,
\* both clamped to the buffer's length.
Slice(buffer, start, end) ==
    LET s == Min(start, Len(buffer))
        e == Min(end, Len(buffer))
    IN  IF e <= s THEN << >> ELSE SubSeq(buffer, s + 1, e)

\* Buffer.alloc(n): n zero bytes.
Alloc(n) == [i \in 1..n |-> 0]

\* source.copy(target, offset) and the write* methods: bytes stored from JS index
\* offset on, as many as the target has room for.
CopyInto(target, offset, bytes) ==
    LET n == Min(Len(bytes), Len(target) - offset)
    IN  IF n <= 0 THEN target
        ELSE SubSeq(target, 1, offset) \o SubSeq(bytes, 1, n)
             \o SubSeq(target, offset + n + 1, Len(target))

---------------------------------------------------------------------------
(* UTF-8, as Buffer.from(message, "utf8") and buffer.toString() convert *)

ReplacementChar == 65533

Utf8EncodeCp(cp) ==
    IF cp < 128 THEN <<cp>>
    ELSE IF cp < 2048 THEN <<192 + (cp \div 64), 128 + (cp % 64)>>
    ELSE IF cp >= 55296 /\ cp <= 57343 THEN <<239, 191, 189>>
    ELSE IF cp < 65536 THEN
        <<224 + (cp \div 4096), 128 + ((cp \div 64) % 64), 128 + (cp % 64)>>
    ELSE <<240 + (cp \div 262144), 128 + ((cp \div 4096) % 64),
           128 + ((cp \div 64) % 64), 128 + (cp % 64)>>

\* Buffer.from(message, "utf8"): the concatenation of the code points' encodings.
RECURSIVE Utf8Encode(_)
Utf8Encode(s) ==
    IF Len(s) = 0 THEN << >>
    ELSE IF Len(s) = 1 THEN Utf8EncodeCp(s[1])
    ELSE LET h == Len(s) \div 2
         IN  Utf8Encode(SubSeq(s, 1, h)) \o Utf8Encode(SubSeq(s, h + 1, Len(s)))

IsCont(b) == b >= 128 /\ b <= 191

\* The number of continuation bytes a lead byte announces, 0 for any other byte.
Need(b) ==
    IF b >= 194 /\ b <= 223 THEN 1
    ELSE IF b >= 224 /\ b <= 239 THEN 2
    ELSE IF b >= 240 /\ b <= 244 THEN 3
    ELSE 0

\* The k-th byte after the lead byte at j continues its sequence.
ContOk(b, j, k) ==
    /\ j + k <= Len(b)
    /\ k <= Need(b[j])
    /\ IF k = 1
       THEN /\ b[j + 1] >= (IF b[j] = 224 THEN 160 ELSE IF b[j] = 240 THEN 144 ELSE 128)
            /\ b[j + 1] <= (IF b[j] = 237 THEN 159 ELSE IF b[j] = 244 THEN 143 ELSE 191)
       ELSE IsCont(b[j + k])

\* How many continuation bytes the sequence starting at j takes.
Taken(b, j) ==
    IF ~ContOk(b, j, 1) THEN 0
    ELSE IF ~ContOk(b, j, 2) THEN 1
    ELSE IF ~ContOk(b, j, 3) THEN 2
    ELSE 3

\* The byte at i is taken as a continuation byte by a lead byte before it.
Consumed(b, i) ==
    /\ IsCont(b[i])
    /\ \E k \in 1..3 : i - k >= 1 /\ Need(b[i - k]) > 0 /\ Taken(b, i - k) >= k

\* The code point decoded at i, where a sequence starts: U+FFFD for an invalid
\* byte and for a sequence cut short.
CodePointAt(b, i) ==
    LET c == b[i]
        n == Need(c)
    IN  IF c < 128 THEN c
        ELSE IF n = 0 \/ Taken(b, i) < n THEN ReplacementChar
        ELSE IF n = 1 THEN (c - 192) * 64 + (b[i + 1] - 128)
        ELSE IF n = 2 THEN
            (c - 224) * 4096 + (b[i + 1] - 128) * 64 + (b[i + 2] - 128)
        ELSE (c - 240) * 262144 + (b[i + 1] - 128) * 4096
             + (b[i + 2] - 128) * 64 + (b[i + 3] - 128)

\* buffer.toString(): one code point per sequence start, in order.
Utf8Decode(b) ==
    LET starts == SelectSeq([i \in 1..Len(b) |-> i], LAMBDA i : ~Consumed(b, i))
    IN  [k \in 1..Len(starts) |-> CodePointAt(b, starts[k])]

---------------------------------------------------------------------------
(* sendMessage: the frame it builds *)

\* The flag left switched on.
isClient_on == TRUE

\* const isClient = false
isClient == FALSE

\* writeUInt16BE / writeBigUInt64BE: n as width big-endian bytes.
RECURSIVE BigEndian(_, _)
BigEndian(n, width) ==
    IF width = 0 THEN << >>
    ELSE Append(BigEndian(n \div 256, width - 1), n % 256)

\* The masking loop without the "% 4": every byte XORed with the key's first byte.
applyMask_firstByte(payload, key) ==
    [i \in 1..Len(payload) |-> BitXor(payload[i], key[1])] \o << >>

\* The loop payload[i] ^= maskKey[i % 4] over the whole payload.  (Appending << >>
\* changes nothing; it has TLC hold the result as a tuple rather than recompute
\* the bytes at each use.)
applyMask(payload, key) ==
    [i \in 1..Len(payload) |-> BitXor(payload[i], key[((i - 1) % 4) + 1])] \o << >>

\* The frame sendMessage builds for msg, with isClient as given and key the four
\* bytes Math.floor(Math.random() * 256) yields (read only when asClient).
encodeFrame(msg, asClient, key) ==
    LET maskingLength == IF asClient THEN 4 ELSE 0
        maskingFlag == IF asClient THEN 128 ELSE 0
        payload == Utf8Encode(msg)
        payloadLength == Len(payload)
        allocated ==
            IF payloadLength < Len16 THEN
                CopyInto(Alloc(2 + maskingLength + payloadLength), 1,
                         <<BitOr(maskingFlag, payloadLength)>>)
            ELSE IF payloadLength < Len64 THEN
                CopyInto(CopyInto(Alloc(4 + maskingLength + payloadLength), 1,
                                  <<BitOr(maskingFlag, 126)>>),
                         2, BigEndian(payloadLength, 2))
            ELSE
                CopyInto(CopyInto(Alloc(10 + maskingLength + payloadLength), 1,
                                  <<BitOr(maskingFlag, 127)>>),
                         2, BigEndian(payloadLength, 8))
        withOpcode == CopyInto(allocated, 0, <<129>>)
        withKey ==
            IF asClient
            THEN CopyInto(withOpcode, Len(withOpcode) - payloadLength - maskingLength, key)
            ELSE withOpcode
        maskedPayload == IF asClient THEN applyMask(payload, key) ELSE payload
    IN  CopyInto(withKey, Len(withKey) - payloadLength, maskedPayload)

---------------------------------------------------------------------------
(* parseFrame *)

\* The payload taken to start at JS index 3, the "3rd byte" read as an index.
dataStart_index3(payloadLength) ==
    3 + (IF payloadLength = 126 THEN 2
         ELSE IF payloadLength = 127 THEN 8
         ELSE 0)

\* dataStart after the length-class test: 2, plus the extended length's bytes.
dataStart(payloadLength) ==
    2 + (IF payloadLength = 126 THEN 2
         ELSE IF payloadLength = 127 THEN 8
         ELSE 0)

\* The loop payloadData[i] ^= maskingKey[i % 4]; a key byte beyond the end of a
\* short maskingKey reads as undefined.
unmask(payloadData, maskingKey) ==
    [i \in 1..Len(payloadData) |->
        BitXor(payloadData[i], ToInt32(At(maskingKey, (i - 1) % 4)))] \o << >>

\* What parseFrame(buffer) does: how it ends (outcome), the string it returns
\* (value), the bytes of payloadData that string decodes, and the caller's buffer
\* as the call leaves it (payloadData is a view of buffer's memory, so the
\* unmasking loop writes there).
parseFrame(buffer) ==
    LET secondByte == At(buffer, 1)
        isMasked == BitAnd(ToInt32(secondByte), 128) = 128
        payloadLength == BitAnd(ToInt32(secondByte), 127)
        start == dataStart(payloadLength)
        maskingKey == IF isMasked THEN Slice(buffer, start, start + 4) ELSE << >>
        payloadStart == start + (IF isMasked THEN 4 ELSE 0)
        payloadData == Slice(buffer, payloadStart, Len(buffer))
        unmasked == IF isMasked THEN unmask(payloadData, maskingKey) ELSE payloadData
    IN  [outcome |-> "returned",
         value |-> Utf8Decode(unmasked),
         payloadData |-> unmasked,
         buffer |-> CopyInto(buffer, payloadStart, unmasked)]

NoResult == [outcome |-> "none", value |-> << >>, payloadData |-> << >>, buffer |-> << >>]

---------------------------------------------------------------------------
(* The server: upgrade handler, socket handlers, interval timer *)

Conns == 1..MaxConns

Urls == {"/ws", "/chat"}

\* req.headers["sec-websocket-key"]: << >> when the request has no such header,
\* else the one-element sequence holding its value.
KeyHeaders == {<< >>, <<"dGhlIHNhbXBsZSBub25jZQ==">>}

\* String(v) for a header value: "undefined" when the header is missing.
StringOf(v) == IF v = << >> THEN "undefined" ELSE v[1]

\* The base64 SHA-1 digest of a string, kept symbolic.
Sha1Base64(s) == [sha1base64 |-> s]

generateAcceptKey(secWebSocketKey) ==
    Sha1Base64(StringOf(secWebSocketKey) \o "258EAFA5-E914-47DA-95CA-C5AB0DC85B11")

NotFound == [line |-> "HTTP/1.1 404 Not Found", accept |-> << >>]

SwitchingProtocols(secWebSocketAccept) ==
    [line |-> "HTTP/1.1 101 Switching Protocols", accept |-> <<secWebSocketAccept>>]

NoResponse == [line |-> "", accept |-> << >>]

NoRequest == [url |-> "", key |-> << >>]

\* "test" and "repeat after me"
TestMessage == <<116, 101, 115, 116>>
RepeatMessage == <<114, 101, 112, 101, 97, 116, 32, 97, 102, 116, 101, 114, 32, 109, 101>>

\* The 4-byte keys Math.random is taken to yield.
MaskKeys == {<<0, 0, 0, 0>>, <<55, 250, 33, 61>>, <<255, 1, 128, 64>>}

\* The buffers a data event is taken to deliver.
DataSamples ==
    { << >>,
      <<129>>,
      <<129, 254, 0>>,
      <<129, 130, 55, 250, 33, 61, 127, 147>> }

RECURSIVE TotalWritten(_)
TotalWritten(n) == IF n = 0 THEN 0 ELSE Len(written[n]) + TotalWritten(n - 1)

\* socket.write(frame) inside sendMessage's try: the frame goes out unless the
\* socket is destroyed, in which case the call reports the error asynchronously
\* and sends nothing.  An ended socket is half-open and still writable.
SocketWrite(c, bytes) ==
    written' = [written EXCEPT ![c] =
                   IF status[c] \in {"open", "ended"} THEN Append(@, bytes) ELSE @]

\* The frame written to every socket rather than to the one passed in.
sendMessage_broadcast(c, msg) ==
    written' = [o \in DOMAIN written |->
                   IF status[o] \in {"open", "ended"}
                   THEN Append(written[o], encodeFrame(msg, isClient, << >>))
                   ELSE written[o]]

\* sendMessage(socket, message)
sendMessage(c, msg) ==
    \E key \in (IF isClient THEN MaskKeys ELSE {<< >>}) :
        SocketWrite(c, encodeFrame(msg, isClient, key))

\* server.on("upgrade", ...)
Upgrade(c, url, key) ==
    /\ ~crashed
    /\ status[c] = "idle"
    /\ request' = [request EXCEPT ![c] = [url |-> url, key |-> key]]
    /\ IF url # "/ws"
       THEN /\ response' = [response EXCEPT ![c] = NotFound]
            /\ status' = [status EXCEPT ![c] = "rejected"]
            /\ UNCHANGED timer
       ELSE /\ response' = [response EXCEPT ![c] =
                               SwitchingProtocols(generateAcceptKey(key))]
            /\ status' = [status EXCEPT ![c] = "open"]
            /\ timer' = [timer EXCEPT ![c] = TRUE]
    /\ UNCHANGED <<written, lastCall, crashed>>
    /\ UNCHANGED codecVars

\* socket.on("data", ...)
OnData(c, d) ==
    /\ ~crashed
    /\ status[c] = "open"
    /\ TotalWritten(MaxConns) < MaxWrites
    /\ LET r == parseFrame(d)
       IN  /\ lastCall' = [conn |-> c, data |-> d, outcome |-> r.outcome,
                           value |-> r.value, buffer |-> r.buffer]
           /\ IF r.outcome = "returned"
              THEN sendMessage(c, TestMessage) /\ UNCHANGED crashed
              ELSE crashed' = TRUE /\ UNCHANGED written
    /\ UNCHANGED <<status, request, response, timer>>
    /\ UNCHANGED codecVars

\* socket.on("end", ...): the peer closed its side
OnEnd(c) ==
    /\ ~crashed
    /\ status[c] = "open"
    /\ status' = [status EXCEPT ![c] = "ended"]
    /\ UNCHANGED <<request, response, written, timer, lastCall, crashed>>
    /\ UNCHANGED codecVars

\* socket.on("error", ...): the socket failed and is destroyed
OnError(c) ==
    /\ ~crashed
    /\ status[c] \in {"open", "ended"}
    /\ status' = [status EXCEPT ![c] = "errored"]
    /\ UNCHANGED <<request, response, written, timer, lastCall, crashed>>
    /\ UNCHANGED codecVars

\* The setInterval callback, every 5 seconds while the timer is active
Tick(c) ==
    /\ ~crashed
    /\ timer[c]
    /\ TotalWritten(MaxConns) < MaxWrites
    /\ sendMessage(c, RepeatMessage)
    /\ UNCHANGED <<status, request, response, timer, lastCall, crashed>>
    /\ UNCHANGED codecVars

NoCall == [conn |-> 0, data |-> << >>, outcome |-> "none", value |-> << >>,
           buffer |-> << >>]

ServerIdle ==
    /\ status = [c \in Conns |-> "idle"]
    /\ request = [c \in Conns |-> NoRequest]
    /\ response = [c \in Conns |-> NoResponse]
    /\ written = [c \in Conns |-> << >>]
    /\ timer = [c \in Conns |-> FALSE]
    /\ lastCall = NoCall
    /\ crashed = FALSE

CodecIdle ==
    /\ pc = "idle"
    /\ msgIn = << >>
    /\ role = FALSE
    /\ maskIn = << >>
    /\ frame = << >>
    /\ data = << >>
    /\ result = NoResult

Init == ServerIdle /\ CodecIdle

Next ==
    \/ \E c \in Conns, url \in Urls, key \in KeyHeaders : Upgrade(c, url, key)
    \/ \E c \in Conns, d \in DataSamples : OnData(c, d)
    \/ \E c \in Conns : OnEnd(c)
    \/ \E c \in Conns : OnError(c)
    \/ \E c \in Conns : Tick(c)

Spec == Init /\ [][Next]_vars

---------------------------------------------------------------------------
(* Codec round trip: a frame is built for a message, a data event delivers it
   (whole, cut short, or followed by more bytes), and parseFrame decodes it *)

Chars == {65, 233, 8364, 128512}

ShortMessages == UNION {[1..n -> Chars] : n \in 0..MaxShortLen}

\* A message whose UTF-8 encoding has n bytes (n >= 7).
LongMessage(n) ==
    [i \in 1..(n - 5) |-> IF i = 1 THEN 8364 ELSE IF i = 2 THEN 128512 ELSE 97 + (i % 26)]

BoundaryLengths == {Len16 - 1, Len16, Len64 - 1, Len64}

LongMessages == {LongMessage(n) : n \in BoundaryLengths}

CodecInit ==
    /\ ServerIdle
    /\ pc = "start"
    /\ (msgIn \in ShortMessages \/ msgIn \in LongMessages)
    /\ role \in BOOLEAN
    /\ maskIn \in (IF role THEN MaskKeys ELSE {<< >>})
    /\ frame = << >>
    /\ data = << >>
    /\ result = NoResult

Encode ==
    /\ pc = "start"
    /\ frame' = encodeFrame(msgIn, role, maskIn)
    /\ pc' = "encoded"
    /\ UNCHANGED <<msgIn, role, maskIn, data, result>>
    /\ UNCHANGED serverVars

\* The transport hands the frame to the data handler in one piece.
DeliverWhole ==
    /\ pc = "encoded"
    /\ data' = frame
    /\ pc' = "delivered"
    /\ UNCHANGED <<msgIn, role, maskIn, frame, result>>
    /\ UNCHANGED serverVars

\* The transport hands over only the first k bytes of the frame.
DeliverPrefix(k) ==
    /\ pc = "encoded"
    /\ k < Len(frame)
    /\ data' = SubSeq(frame, 1, k)
    /\ pc' = "delivered"
    /\ UNCHANGED <<msgIn, role, maskIn, frame, result>>
    /\ UNCHANGED serverVars

\* The transport hands over the frame together with the bytes that follow it.
DeliverCoalesced(more) ==
    /\ pc = "encoded"
    /\ data' = frame \o more
    /\ pc' = "delivered"
    /\ UNCHANGED <<msgIn, role, maskIn, frame, result>>
    /\ UNCHANGED serverVars

Decode ==
    /\ pc = "delivered"
    /\ result' = parseFrame(data)
    /\ pc' = "decoded"
    /\ UNCHANGED <<msgIn, role, maskIn, frame, data>>
    /\ UNCHANGED serverVars

CodecNext ==
    \/ Encode
    \/ DeliverWhole
    \/ \E k \in (0..MaxCut) \cup {Len(frame) - 1} : DeliverPrefix(k)
    \/ \E more \in {<<66>>, frame} : DeliverCoalesced(more)
    \/ Decode

CodecSpec == CodecInit /\ [][CodecNext]_vars

---------------------------------------------------------------------------
(* Frame layout as the protocol states it, read off a buffer's header bytes *)

\* The 7-bit length indicator of the second byte.
Indicator(buf) == buf[2] % 128

MaskBit(buf) == buf[2] >= 128

\* The bytes before the payload: 2, the extended length field, the masking key.
HeaderLength(buf) ==
    2 + (IF Indicator(buf) = 126 THEN 2 ELSE IF Indicator(buf) = 127 THEN 8 ELSE 0)
      + (IF MaskBit(buf) THEN 4 ELSE 0)

\* The payload length the header declares (for lengths below 2^31).
DeclaredLength(buf) ==
    IF Indicator(buf) < 126 THEN Indicator(buf)
    ELSE IF Indicator(buf) = 126 THEN (buf[3] * 256) + buf[4]
    ELSE (buf[7] * 16777216) + (buf[8] * 65536) + (buf[9] * 256) + buf[10]

\* The buffer is shorter than the header plus the payload its header declares.
Truncated(buf) ==
    \/ Len(buf) < 2
    \/ Len(buf) < HeaderLength(buf)
    \/ Len(buf) < HeaderLength(buf) + DeclaredLength(buf)

\* The buffer begins with the whole frame the encoder built.
BeginsWithFrame == Len(data) >= Len(frame) /\ SubSeq(data, 1, Len(frame)) = frame

---------------------------------------------------------------------------
(* Claims *)

\* C1: a frame built with masking off and passed whole to parseFrame decodes to
\* exactly the message it was built for, in every length class.
C1_ServerRoundTrip ==
    (pc = "decoded" /\ ~role /\ data = frame)
        => (result.outcome = "returned" /\ result.value = msgIn)

C1_Witness ==
    /\ pc = "decoded" /\ ~role /\ data = frame
    /\ Len(frame) = 4 + 126
    /\ result.value = msgIn

\* C2: a frame built in the client role has the MASK bit set, carries the key in
\* the 4 bytes before the payload, carries the payload XORed with key[i mod 4],
\* and parseFrame applied to it returns exactly the message.
C2_MaskedRoundTrip ==
    /\ (pc = "encoded" /\ role) =>
          LET payload == Utf8Encode(msgIn)
              n == Len(payload)
              h == Len(frame) - n
          IN  /\ h >= 6
              /\ MaskBit(frame)
              /\ SubSeq(frame, h - 3, h) = maskIn
              /\ \A i \in 1..n :
                    frame[h + i] = BitXor(payload[i], maskIn[((i - 1) % 4) + 1])
    /\ (pc = "decoded" /\ role /\ data = frame) => result.value = msgIn

C2_Witness ==
    /\ pc = "decoded" /\ role /\ data = frame
    /\ maskIn = <<55, 250, 33, 61>>
    /\ Len(msgIn) > 4
    /\ result.value = msgIn

\* C3: the encoder's length class: indicator n and a 2-byte header below 126,
\* indicator 126 and a 2-byte big-endian length below 65536, indicator 127 and
\* an 8-byte big-endian length from 65536 on; the frame is header + mask + n long.
C3_LengthClass ==
    pc = "encoded" =>
        LET n == Len(Utf8Encode(msgIn))
            m == IF role THEN 4 ELSE 0
        IN  IF n < 126 THEN
                /\ Indicator(frame) = n
                /\ Len(frame) = 2 + m + n
            ELSE IF n < 65536 THEN
                /\ Indicator(frame) = 126
                /\ (frame[3] * 256) + frame[4] = n
                /\ Len(frame) = 4 + m + n
            ELSE
                /\ Indicator(frame) = 127
                /\ SubSeq(frame, 3, 6) = <<0, 0, 0, 0>>
                /\ DeclaredLength(frame) = n
                /\ Len(frame) = 10 + m + n

C3_Witness ==
    /\ pc = "encoded"
    /\ Len(Utf8Encode(msgIn)) = 65536
    /\ Indicator(frame) = 127
    /\ SubSeq(frame, 3, 10) = <<0, 0, 0, 0, 0, 1, 0, 0>>

\* C4: for a buffer that begins with one complete frame, followed by further
\* bytes or not, parseFrame returns as many payload bytes as the header declares,
\* and they are that frame's unmasked payload.
C4_FirstFramePayload ==
    (pc = "decoded" /\ BeginsWithFrame) =>
        /\ Len(result.payloadData) = DeclaredLength(data)
        /\ result.payloadData = Utf8Encode(msgIn)

\* C5: a buffer shorter than its header plus declared payload ends the decoder
\* in a TruncatedFrameError and yields no text.
C5_TruncatedIsError ==
    (pc = "decoded" /\ Truncated(data)) =>
        (result.outcome = "TruncatedFrameError" /\ result.value = << >>)

\* C7: parseFrame leaves every byte of the caller's buffer as it was, so a
\* second decode of the same buffer returns the same text.
C7_BufferUnchanged ==
    pc = "decoded" =>
        /\ result.buffer = data
        /\ parseFrame(result.buffer).value = result.value

\* C6: every frame the server writes starts with 0x81, has the MASK bit clear
\* and no masking key, and carries the message's bytes right after the length.
C6_ServerFramesUnmasked ==
    \A c \in Conns : \A i \in 1..Len(written[c]) :
        /\ written[c][i][1] = 129
        /\ written[c][i][2] < 128
        /\ written[c][i] \in
              { <<129, 4, 116, 101, 115, 116>>,
                <<129, 15, 114, 101, 112, 101, 97, 116, 32, 97, 102, 116, 101, 114,
                  32, 109, 101>> }

C6_Witness ==
    \E c \in Conns :
        /\ Len(written[c]) >= 2
        /\ written[c][1] = <<129, 4, 116, 101, 115, 116>>
        /\ written[c][2][2] = 15

\* C8: an upgrade request for /ws without a Sec-WebSocket-Key gets no accept
\* token and no 101 response, and the connection is not upgraded.
C8_MissingKeyFails ==
    \A c \in Conns :
        (request[c].url = "/ws" /\ request[c].key = << >>) =>
            /\ response[c].line # "HTTP/1.1 101 Switching Protocols"
            /\ response[c].accept = << >>
            /\ ~timer[c]

\* C9: once a socket has emitted end or error, its timer is cancelled and no
\* further frame is written to it.
C9_TimerStopsOnClose ==
    [][\A c \in Conns :
          status[c] \in {"ended", "errored"} =>
              (~timer[c] /\ ~timer'[c] /\ written'[c] = written[c])]_vars

\* C10: whatever buffer a data event delivers, parseFrame returns without
\* raising and the handler writes exactly one "test" frame, to that socket only.
C10_DataNeverCrashes ==
    [][\A c \in Conns, d \in DataSamples :
          OnData(c, d) =>
              /\ ~crashed'
              /\ lastCall'.outcome = "returned"
              /\ written'[c] = Append(written[c], <<129, 4, 116, 101, 115, 116>>)
              /\ \A o \in Conns \ {c} : written'[o] = written[o]]_vars

C10_Witness ==
    /\ ~crashed
    /\ lastCall.conn \in Conns
    /\ Len(lastCall.data) < 2
    /\ lastCall.outcome = "returned"
    /\ Len(written[lastCall.conn]) >= 1
    /\ \E o \in Conns : o # lastCall.conn /\ status[o] = "open" /\ written[o] = << >>

====
